---------------------------- MODULE Spec2Model ----------------------------
(***************************************************************************)
(* Model of src/app.py: the Streamlit competitor-analysis page.            *)
(*                                                                         *)
(* Text is modelled as a sequence of tokens.  "[", "]", "," and " " are    *)
(* the characters the code and the JSON grammar look at; "x" is a word of  *)
(* prose (not JSON); every other token is one complete JSON literal        *)
(* (a string such as "A", or an object such as "o1").                      *)
(***************************************************************************)
EXTENDS Integers, Sequences, FiniteSets, TLC

VARIABLES
    secrets_ok,   \* st.secrets holds the API key AIProvider.__init__ reads
    industries,   \* st.session_state.industries: None or a list
    competitors,  \* st.session_state.competitors: insertion-ordered dict,
                  \* a sequence of [key, list] items with distinct keys
    pc,           \* position of the script run: "idle" (ended) or "tabs"
    tab,          \* index of the render loop over the tabs (1-based)
    event,        \* what triggered the current (or last) script run
    exc,          \* the uncaught exception that ended the last script run
    reply,        \* what the LLM and the search answer to the current call
    ret,          \* outcome of the last identify_industries/find_competitors
    csv,          \* rows export_results handed to the download button
    calls,        \* find_competitors invocations per label since the last
                  \* accepted submission
    fresh         \* keys of competitors stored since the last accepted submission

vars == <<secrets_ok, industries, competitors, pc, tab, event, exc, reply, ret,
          csv, calls, fresh>>

-----------------------------------------------------------------------------
(* Bounds of the model *)

\* longest reply text enumerated token by token
MaxLen == 4
\* longest JSON array (in elements) wrapped in prose
MaxElems == 4
\* longest prose before and after a wrapped array
MaxProse == 1
\* find_competitors invocations counted per industry label
MaxCalls == 2

-----------------------------------------------------------------------------
(* Python str helpers, on token sequences *)

\* None, as a value that no list of JSON elements equals
None == << <<"None">> >>

RECURSIVE lstrip(_)
lstrip(s) == IF s # <<>> /\ Head(s) = " " THEN lstrip(Tail(s)) ELSE s

RECURSIVE rstrip(_)
rstrip(s) ==
    IF s # <<>> /\ s[Len(s)] = " " THEN rstrip(SubSeq(s, 1, Len(s) - 1)) ELSE s

\* str.strip()
strip(s) == rstrip(lstrip(s))

\* str.startswith / str.endswith of a one-character string
startswith(s, t) == s # <<>> /\ s[1] = t
endswith(s, t) == s # <<>> /\ s[Len(s)] = t

\* str.find: 0-based index of the first occurrence, -1 when absent
find(s, t) ==
    IF \E i \in 1..Len(s) : s[i] = t
    THEN (CHOOSE i \in 1..Len(s) : s[i] = t /\ \A j \in 1..(i-1) : s[j] # t) - 1
    ELSE -1

\* str.rfind: 0-based index of the last occurrence, -1 when absent
rfind(s, t) ==
    IF \E i \in 1..Len(s) : s[i] = t
    THEN (CHOOSE i \in 1..Len(s) : s[i] = t /\ \A j \in (i+1)..Len(s) : s[j] # t) - 1
    ELSE -1

\* a slice bound as Python normalises it: negative counts from the end, clamped
SliceIndex(s, k) ==
    IF k < 0 THEN (IF Len(s) + k < 0 THEN 0 ELSE Len(s) + k)
    ELSE (IF k > Len(s) THEN Len(s) ELSE k)

\* s[k:]
SliceFrom(s, k) == SubSeq(s, SliceIndex(s, k) + 1, Len(s))

\* s[:k]
SliceTo(s, k) == SubSeq(s, 1, SliceIndex(s, k))

-----------------------------------------------------------------------------
(* json.loads, on token sequences *)

\* JSON string literals
StrTokens == {"A", "B", "Technology Solutions", "Software Services", "Digital Innovation"}
\* JSON object literals; their members are bound by the reply (reply.bind)
ObjTokens == {"o1", "o2"}
AtomTokens == StrTokens \cup ObjTokens

ParseFail == [ok |-> FALSE, array |-> FALSE, text |-> <<>>, elems |-> <<>>, next |-> 0]

RECURSIVE SkipWs(_, _)
SkipWs(s, i) == IF i <= Len(s) /\ s[i] = " " THEN SkipWs(s, i + 1) ELSE i

RECURSIVE ParseValue(_, _)
RECURSIVE ParseElems(_, _, _, _)
\* the JSON value starting at position i (no leading whitespace): its canonical
\* text, its elements when it is an array, and the position after it
ParseValue(s, i) ==
    IF i > Len(s) THEN ParseFail
    ELSE IF s[i] \in AtomTokens
    THEN [ok |-> TRUE, array |-> FALSE, text |-> <<s[i]>>, elems |-> <<>>, next |-> i + 1]
    ELSE IF s[i] = "["
    THEN LET j == SkipWs(s, i + 1) IN
         IF j <= Len(s) /\ s[j] = "]"
         THEN [ok |-> TRUE, array |-> TRUE, text |-> <<"[", "]">>, elems |-> <<>>,
               next |-> j + 1]
         ELSE ParseElems(s, j, <<>>, <<"[">>)
    ELSE ParseFail

\* the elements of an array from position i on, after the elements acc were read
ParseElems(s, i, acc, text) ==
    LET v == ParseValue(s, i) IN
    IF ~v.ok THEN ParseFail
    ELSE LET k == SkipWs(s, v.next) IN
         IF k > Len(s) THEN ParseFail
         ELSE IF s[k] = "]"
         THEN [ok |-> TRUE, array |-> TRUE, text |-> text \o v.text \o <<"]">>,
               elems |-> Append(acc, v.text), next |-> k + 1]
         ELSE IF s[k] = ","
         THEN ParseElems(s, SkipWs(s, k + 1), Append(acc, v.text),
                         text \o v.text \o <<",">>)
         ELSE ParseFail

\* json.loads(s): one JSON value with optional whitespace around it; ok = FALSE
\* stands for json.JSONDecodeError
json_loads(s) ==
    LET v == ParseValue(s, SkipWs(s, 1)) IN
    IF v.ok /\ SkipWs(s, v.next) > Len(s) THEN v ELSE ParseFail

-----------------------------------------------------------------------------
(* The LLM behind AIProvider.generate_response *)

\* a reply is a text, an error of the API call, or (provider "anthropic", whose
\* generate_response returns message.content) a list of content blocks
\* For find_competitors, query is the reply to the search-query prompt and
\* search the outcome of DDGS().text; kind/text/bind are the analysis reply.
Reply(k, t, b, q, se) == [kind |-> k, text |-> t, bind |-> b, query |-> q, search |-> se]
TextReply(t, b) == Reply("text", t, b, "text", "ok")
ErrorReply == Reply("error", <<>>, <<>>, "text", "ok")
BlocksReply == Reply("blocks", <<>>, <<>>, "text", "ok")
NoReply == Reply("none", <<>>, <<>>, "none", "none")

\* AIProvider(): st.secrets["api_keys"][...] raises KeyError when the key is absent
AIProvider(secrets) == IF secrets THEN "ok" ELSE "KeyError"

\* generate_response: logs and re-raises what the API call raises
generate_response(r) ==
    IF r.kind = "error" THEN [raised |-> TRUE, str |-> FALSE, text |-> <<>>]
    ELSE IF r.kind = "blocks" THEN [raised |-> FALSE, str |-> FALSE, text |-> <<>>]
    ELSE [raised |-> FALSE, str |-> TRUE, text |-> r.text]

-----------------------------------------------------------------------------
(* identify_industries *)

DefaultIndustries ==
    << <<"Technology Solutions">>, <<"Software Services">>, <<"Digital Innovation">> >>

\* what a call did: cred is what AIProvider() met, raised whether an exception
\* left the function, logged/shown whether logger.error/st.error were called
Outcome(f, c, r, v, l, sh) ==
    [fn |-> f, cred |-> c, raised |-> r, value |-> v, logged |-> l, shown |-> sh]
NoCall == Outcome("none", "none", FALSE, <<>>, FALSE, FALSE)

\* lines 310-314 (and 355-359): cut before the first '[' and after the last ']'
CleanFront(s) == IF ~startswith(s, "[") THEN SliceFrom(s, find(s, "[")) ELSE s
CleanBack(s) == IF ~endswith(s, "]") THEN SliceTo(s, rfind(s, "]") + 1) ELSE s
cleaned_response(text) == CleanBack(CleanFront(strip(text)))

\* the slice forgotten: the whole list
FirstThree_unsliced(l) == l

\* industries[:3]
FirstThree(l) == SubSeq(l, 1, IF Len(l) < 3 THEN Len(l) ELSE 3)

\* the except clause missing: the failure leaves the function
IndustriesFallback_reraised ==
    Outcome("identify_industries", "ok", TRUE, <<>>, TRUE, FALSE)

\* lines 318-320
IndustriesFallback ==
    Outcome("identify_industries", "ok", FALSE, DefaultIndustries, TRUE, FALSE)

identify_industries(secrets, r) ==
    IF AIProvider(secrets) # "ok"
    THEN Outcome("identify_industries", AIProvider(secrets), TRUE, <<>>, FALSE, FALSE)
    ELSE LET response == generate_response(r) IN
         IF response.raised \/ ~response.str THEN IndustriesFallback
         ELSE LET parsed == json_loads(cleaned_response(response.text)) IN
              IF ~parsed.ok THEN IndustriesFallback
              ELSE Outcome("identify_industries", "ok", FALSE,
                           IF parsed.array THEN FirstThree(parsed.elems)
                           ELSE parsed.text,
                           FALSE, FALSE)

-----------------------------------------------------------------------------
(* The replies enumerated for identify_industries *)

RECURSIVE SeqsUpTo(_, _)
SeqsUpTo(S, n) ==
    IF n = 0 THEN {<<>>}
    ELSE LET P == SeqsUpTo(S, n - 1) IN
         P \cup {Append(p, t) : p \in {q \in P : Len(q) = n - 1}, t \in S}

RECURSIVE Join(_)
Join(es) ==
    IF es = <<>> THEN <<>>
    ELSE IF Len(es) = 1 THEN es[1]
    ELSE es[1] \o <<",">> \o Join(Tail(es))

\* the text of the JSON array of the elements es
ArrayText(es) == <<"[">> \o Join(es) \o <<"]">>

TextTokens == {"[", "]", ",", " ", "x", "A", "B"}
ProseTokens == {"[", "]", " ", "x"}
Labels == {<<"A">>, <<"B">>}

IdentifyTexts ==
    SeqsUpTo(TextTokens, MaxLen)
    \cup {pre \o ArrayText(es) \o post :
            pre \in SeqsUpTo(ProseTokens, MaxProse),
            post \in SeqsUpTo(ProseTokens, MaxProse),
            es \in SeqsUpTo(Labels, MaxElems)}

IdentifyReplies ==
    {TextReply(t, <<>>) : t \in IdentifyTexts} \cup {ErrorReply, BlocksReply}

-----------------------------------------------------------------------------
(* identify_industries applied to every reply *)

SessionLabels == {<<t>> : t \in StrTokens}
NoCalls == [l \in SessionLabels |-> 0]

InitIdentify ==
    /\ secrets_ok \in BOOLEAN
    /\ reply \in IdentifyReplies
    /\ ret = NoCall
    /\ industries = None
    /\ competitors = <<>>
    /\ pc = "idle"
    /\ tab = 0
    /\ event = "none"
    /\ exc = "none"
    /\ csv = <<>>
    /\ calls = NoCalls
    /\ fresh = {}

IdentifyCall ==
    /\ ret.fn = "none"
    /\ ret' = identify_industries(secrets_ok, reply)
    /\ UNCHANGED <<secrets_ok, industries, competitors, pc, tab, event, exc,
                   reply, csv, calls, fresh>>

NextIdentify == IdentifyCall

SpecIdentify == InitIdentify /\ [][NextIdentify]_vars

-----------------------------------------------------------------------------
(* find_competitors *)

\* A competitor is a dict: a function from some of these keys to texts.
Fields == {"name", "website", "description", "differentiator"}

\* Website texts are sequences of these tokens: a scheme with its "://", the
\* "www." prefix, a host name, the path separator, a path segment.
UrlSchemes == {"http://", "https://"}

\* str.find for the first '/' of the text after the scheme (1-based, Len+1 when absent)
PathStart(u) ==
    IF \E i \in 1..Len(u) : u[i] = "/"
    THEN CHOOSE i \in 1..Len(u) : u[i] = "/" /\ \A j \in 1..(i-1) : u[j] # "/"
    ELSE Len(u) + 1

\* urllib.parse.urlparse: a netloc only after a scheme's "//", up to the first
\* '/'; without a scheme the whole text is the path
urlparse(u) ==
    IF u # <<>> /\ u[1] \in UrlSchemes
    THEN LET rest == Tail(u) IN
         [scheme |-> u[1],
          netloc |-> SubSeq(rest, 1, PathStart(rest) - 1),
          path |-> SubSeq(rest, PathStart(rest), Len(rest))]
    ELSE [scheme |-> "", netloc |-> <<>>, path |-> u]

\* lines 365-370: the website of one competitor rewritten
CleanUrl(comp) ==
    IF "website" \in DOMAIN comp /\ comp["website"] # <<>>
    THEN LET parsed_url == urlparse(comp["website"])
             domain == IF parsed_url.netloc # <<>> THEN parsed_url.netloc
                       ELSE parsed_url.path
             www == IF ~startswith(domain, "www.") THEN <<"www.">> \o domain
                    ELSE domain
         IN [comp EXCEPT !["website"] = <<"https://">> \o www]
    ELSE comp

\* comp.get exists only on a dict: an element that is a string or a list
\* raises AttributeError in the loop
IsDict(elem) == Len(elem) = 1 /\ elem[1] \in ObjTokens

\* lines 374-377
CompetitorsFallback == Outcome("find_competitors", "ok", FALSE, <<>>, TRUE, TRUE)

find_competitors(secrets, r) ==
    IF AIProvider(secrets) # "ok"
    THEN Outcome("find_competitors", AIProvider(secrets), TRUE, <<>>, FALSE, FALSE)
    ELSE IF r.query # "text" THEN CompetitorsFallback
    ELSE IF r.search # "ok" THEN CompetitorsFallback
    ELSE LET competitor_analysis == generate_response(r) IN
         IF competitor_analysis.raised \/ ~competitor_analysis.str
         THEN CompetitorsFallback
         ELSE LET parsed == json_loads(cleaned_response(competitor_analysis.text)) IN
              IF ~parsed.ok \/ ~parsed.array THEN CompetitorsFallback
              ELSE IF \E k \in 1..Len(parsed.elems) : ~IsDict(parsed.elems[k])
              THEN CompetitorsFallback
              ELSE Outcome("find_competitors", "ok", FALSE,
                           FirstThree([k \in 1..Len(parsed.elems) |->
                                          CleanUrl(r.bind[parsed.elems[k][1]])]),
                           FALSE, FALSE)

-----------------------------------------------------------------------------
(* export_results *)

headers == << <<"Industry">>, <<"Competitor">>, <<"Website">>, <<"Description">>,
              <<"Key Differentiator">> >>

\* the columns in another order than the header
CsvRow_swapped(industry, comp) ==
    <<industry, comp["website"], comp["name"], comp["description"],
      comp["differentiator"]>>

\* lines 390-396: one row of csv_data
CsvRow(industry, comp) ==
    <<industry, comp["name"], comp["website"], comp["description"],
      comp["differentiator"]>>

RECURSIVE CompRows(_, _)
CompRows(industry, comps) ==
    IF comps = <<>> THEN <<>>
    ELSE <<CsvRow(industry, Head(comps))>> \o CompRows(industry, Tail(comps))

\* lines 388-396: the loop over the items of the dict
RECURSIVE csv_data(_)
csv_data(items) ==
    IF items = <<>> THEN <<>>
    ELSE CompRows(Head(items).key, Head(items).list) \o csv_data(Tail(items))

\* comp['name'] ... comp['differentiator'] raise KeyError on a missing key
HasAllFields(comp) == Fields \subseteq DOMAIN comp
AllComplete(items) ==
    \A p \in 1..Len(items) : \A c \in 1..Len(items[p].list) :
        HasAllFields(items[p].list[c])

\* the rows written (header first), <<>> when nothing is written
export_results(items) ==
    IF items = <<>> THEN [raised |-> FALSE, warned |-> TRUE, rows |-> <<>>]
    ELSE IF ~AllComplete(items) THEN [raised |-> TRUE, warned |-> FALSE, rows |-> <<>>]
    ELSE [raised |-> FALSE, warned |-> FALSE, rows |-> <<headers>> \o csv_data(items)]

-----------------------------------------------------------------------------
(* main: one script run per user interaction *)

\* The pitch is not modelled: every accepted submission is a pitch that
\* st.cache_data has not seen, so identify_industries runs.  A cached result is
\* one an earlier run of the function returned, which the LLM may return again.

\* `if st.session_state.industries:`
Truthy(ind) == ind # None /\ ind # <<>>

\* st.tabs accepts only str labels
IsStr(elem) == Len(elem) = 1 /\ elem[1] \in StrTokens

\* `industry in st.session_state.competitors`
HasKey(items, k) == \E p \in 1..Len(items) : items[p].key = k
Lookup(items, k) == items[CHOOSE p \in 1..Len(items) : items[p].key = k].list

\* lines 460-468: the card of every competitor reads its four fields
CardsRender(comps) == \A c \in 1..Len(comps) : HasAllFields(comps[c])

\* the form was rejected: line 438 never ran
ResetCompetitors_skipped == competitors

\* line 438
ResetCompetitors == <<>>

\* texts of competitor fields
Acme == [name |-> <<"Acme">>, website |-> <<"http://", "acme.com", "/", "about">>,
         description |-> <<"makes anvils">>, differentiator |-> <<"cheap">>]
Beta == [name |-> <<"Beta">>, website |-> <<"www.", "beta.io">>,
         description |-> <<"makes rockets">>, differentiator |-> <<"fast">>]
Bare == [name |-> <<"Bare">>, website |-> <<"bare.com", "/", "pricing">>,
         description |-> <<"makes paint">>, differentiator |-> <<"bright">>]
Mute == [name |-> <<"Mute">>, website |-> <<>>,
         description |-> <<"says nothing">>, differentiator |-> <<"quiet">>]
NameOnly == [name |-> <<"Nemo">>]

\* what the LLM answers to the industry prompt in a session
SessionIdentifyReplies ==
    { ErrorReply,
      TextReply(<<"[", "A", "]">>, <<>>),
      TextReply(<<"x", " ", "[", "A", ",", "B", ",", "A", ",", "B", "]", "x">>, <<>>),
      TextReply(<<"[", "]">>, <<>>),
      TextReply(<<"[", "[", "A", "]", "]">>, <<>>) }

\* what the LLM and the search answer to find_competitors in a session
SessionFindReplies ==
    { Reply("none", <<>>, <<>>, "error", "none"),
      Reply("none", <<>>, <<>>, "text", "error"),
      ErrorReply,
      BlocksReply,
      TextReply(<<"x">>, <<>>),
      TextReply(<<"[", "A", "]">>, <<>>),
      TextReply(<<"x", "[", "o1", "]">>, [o1 |-> Acme, o2 |-> Beta]),
      TextReply(<<"[", "o1", ",", "o2", ",", "o2", ",", "o1", "]">>,
                [o1 |-> Acme, o2 |-> Beta]),
      TextReply(<<"[", "o1", ",", "o2", "]">>, [o1 |-> Mute, o2 |-> Bare]),
      TextReply(<<"[", "o1", "]">>, [o1 |-> NameOnly, o2 |-> Beta]) }

Init ==
    /\ secrets_ok \in BOOLEAN
    /\ industries = None
    /\ competitors = <<>>
    /\ pc = "idle"
    /\ tab = 0
    /\ event = "none"
    /\ exc = "none"
    /\ reply = NoReply
    /\ ret = NoCall
    /\ csv = <<>>
    /\ calls = NoCalls
    /\ fresh = {}

\* lines 442-445: after the form, the tabs are created when there are industries
BeginRender(ind) ==
    IF ~Truthy(ind)
    THEN pc' = "idle" /\ tab' = 0 /\ exc' = "none"
    ELSE IF \E i \in 1..Len(ind) : ~IsStr(ind[i])
    THEN pc' = "idle" /\ tab' = 0 /\ exc' = "StreamlitAPIException"
    ELSE pc' = "tabs" /\ tab' = 1 /\ exc' = "none"

\* lines 435-439: the form submitted with a name and a pitch
SubmitAccepted ==
    /\ pc = "idle"
    /\ \E r \in SessionIdentifyReplies :
        LET o == identify_industries(secrets_ok, r) IN
        /\ event' = "accepted"
        /\ reply' = r
        /\ ret' = o
        /\ csv' = <<>>
        /\ calls' = NoCalls
        /\ fresh' = {}
        /\ IF o.raised
           THEN /\ pc' = "idle" /\ tab' = 0 /\ exc' = "KeyError"
                /\ UNCHANGED <<industries, competitors>>
           ELSE /\ industries' = o.value
                /\ competitors' = ResetCompetitors
                /\ BeginRender(o.value)
    /\ UNCHANGED secrets_ok

\* line 435 false: the form submitted with an empty name or an empty pitch
SubmitRejected ==
    /\ pc = "idle"
    /\ event' = "rejected"
    /\ reply' = NoReply /\ ret' = NoCall /\ csv' = <<>>
    /\ BeginRender(industries)
    /\ UNCHANGED <<secrets_ok, industries, competitors, calls, fresh>>

\* a rerun of the page without a submission (the download button, a reload)
Rerun ==
    /\ pc = "idle"
    /\ event' = "rerun"
    /\ reply' = NoReply /\ ret' = NoCall /\ csv' = <<>>
    /\ BeginRender(industries)
    /\ UNCHANGED <<secrets_ok, industries, competitors, calls, fresh>>

\* lines 448-468, a tab whose industry is not loaded: find_competitors, the
\* store, then the cards
LoadTab ==
    /\ pc = "tabs" /\ tab <= Len(industries)
    /\ ~HasKey(competitors, industries[tab])
    /\ calls[industries[tab]] < MaxCalls
    /\ \E r \in SessionFindReplies :
        LET industry == industries[tab]
            o == find_competitors(secrets_ok, r) IN
        /\ reply' = r
        /\ ret' = o
        /\ calls' = [calls EXCEPT ![industry] = @ + 1]
        /\ IF o.raised
           THEN /\ pc' = "idle" /\ exc' = "KeyError"
                /\ UNCHANGED <<competitors, fresh, tab>>
           ELSE /\ competitors' = Append(competitors, [key |-> industry, list |-> o.value])
                /\ fresh' = fresh \cup {industry}
                /\ IF CardsRender(o.value)
                   THEN pc' = "tabs" /\ tab' = tab + 1 /\ exc' = "none"
                   ELSE pc' = "idle" /\ tab' = tab /\ exc' = "KeyError"
    /\ UNCHANGED <<secrets_ok, industries, event, csv>>

\* lines 448-468, a tab whose industry is loaded: the cards only
ShowTab ==
    /\ pc = "tabs" /\ tab <= Len(industries)
    /\ HasKey(competitors, industries[tab])
    /\ IF CardsRender(Lookup(competitors, industries[tab]))
       THEN pc' = "tabs" /\ tab' = tab + 1 /\ exc' = "none"
       ELSE pc' = "idle" /\ tab' = tab /\ exc' = "KeyError"
    /\ UNCHANGED <<secrets_ok, industries, competitors, event, reply, ret, csv,
                   calls, fresh>>

\* lines 470-473: after the last tab, the export
Export ==
    /\ pc = "tabs" /\ tab > Len(industries)
    /\ IF competitors # <<>>
       THEN LET e == export_results(competitors) IN
            /\ csv' = e.rows
            /\ exc' = IF e.raised THEN "KeyError" ELSE "none"
       ELSE UNCHANGED <<csv, exc>>
    /\ pc' = "idle"
    /\ UNCHANGED <<secrets_ok, industries, competitors, tab, event, reply, ret,
                   calls, fresh>>

\* the secrets store is edited: AIProvider() reads st.secrets on every call
SecretsChange ==
    /\ secrets_ok' = ~secrets_ok
    /\ UNCHANGED <<industries, competitors, pc, tab, event, exc, reply, ret, csv,
                   calls, fresh>>

Next ==
    \/ SubmitAccepted
    \/ SubmitRejected
    \/ Rerun
    \/ LoadTab
    \/ ShowTab
    \/ Export
    \/ SecretsChange

Spec == Init /\ [][Next]_vars

-----------------------------------------------------------------------------
(* Properties of identify_industries (specification SpecIdentify) *)

Has(s, t) == \E i \in 1..Len(s) : s[i] = t

\* the LLM call was reached and answered with a text
IdentifiedText ==
    ret.fn = "identify_industries" /\ ret.cred = "ok" /\ reply.kind = "text"

\* C1: whatever text the LLM answers, and when the LLM call itself fails,
\* identify_industries returns and does not raise; it returns exactly the
\* default list whenever the trimmed text does not parse as JSON, in
\* particular when the text has no '[', no ']', or every ']' before the
\* first '['.
C1_ReturnsDefaultOnMalformed ==
    (ret.fn = "identify_industries" /\ ret.cred = "ok") =>
        /\ ~ret.raised
        /\ IdentifiedText =>
            LET t == reply.text IN
            /\ ~json_loads(cleaned_response(t)).ok => ret.value = DefaultIndustries
            /\ ~Has(t, "[") => ret.value = DefaultIndustries
            /\ ~Has(t, "]") => ret.value = DefaultIndustries
            /\ (Has(t, "[") /\ rfind(t, "]") < find(t, "["))
                   => ret.value = DefaultIndustries

\* C1 witness: a text whose brackets are in the wrong order was answered with
\* the default list
C1_Witness ==
    /\ IdentifiedText
    /\ Has(reply.text, "[") /\ Has(reply.text, "]")
    /\ rfind(reply.text, "]") < find(reply.text, "[")
    /\ ~ret.raised
    /\ ret.value = DefaultIndustries

\* the spans t[i..j] of a text
Splits(t) ==
    {<<i, j>> \in (1..Len(t)) \X (1..Len(t)) : i < j}

\* the tokens at the element positions of an array text '[' e ',' e ... ']'
ElemsOf(a) == [k \in 1..((Len(a) - 1) \div 2) |-> <<a[2 * k]>>]

\* a is the text of a JSON array of labels
IsLabelArray(a) ==
    /\ \A k \in 1..Len(ElemsOf(a)) : ElemsOf(a)[k] \in Labels
    /\ a = ArrayText(ElemsOf(a))

\* C2 as stated: whatever prose surrounds a JSON array, the first 3 elements
\* of that array are returned, in order.
C2_AnyProse ==
    IdentifiedText =>
        \A ij \in Splits(reply.text) :
            LET a == SubSeq(reply.text, ij[1], ij[2])
                es == ElemsOf(a) IN
            IsLabelArray(a)
                => ret.value = SubSeq(es, 1, IF Len(es) < 3 THEN Len(es) ELSE 3)

\* C2 amended: when the prose before the array holds no '[' and the prose
\* after it holds no ']', the first 3 elements of the array are returned, in
\* order: never more than 3, and a shorter array (the empty one too) as it is.
C2_ProseWithoutBrackets ==
    IdentifiedText =>
        /\ Len(ret.value) <= 3
        /\ \A ij \in Splits(reply.text) :
            LET t == reply.text
                a == SubSeq(t, ij[1], ij[2])
                es == ElemsOf(a) IN
            ( /\ IsLabelArray(a)
              /\ ~Has(SubSeq(t, 1, ij[1] - 1), "[")
              /\ ~Has(SubSeq(t, ij[2] + 1, Len(t)), "]") )
                => /\ ret.value = SubSeq(es, 1, IF Len(es) < 3 THEN Len(es) ELSE 3)
                   /\ (Len(es) < 3 => ret.value = es)

\* C2 witness: an array of more than 3 elements with prose on both sides was
\* cut to its first 3
C2_Witness ==
    /\ IdentifiedText
    /\ Len(reply.text) > 2
    /\ LET a == SubSeq(reply.text, 2, Len(reply.text) - 1)
           es == ElemsOf(a) IN
        /\ IsLabelArray(a)
        /\ Len(es) > 3
        /\ reply.text = <<"x">> \o a \o <<"x">>
        /\ ret.value = SubSeq(es, 1, 3)
        /\ es[1] # es[2]

-----------------------------------------------------------------------------
(* Properties of find_competitors, export_results and main (specification Spec) *)

\* find_competitors got past AIProvider()
FoundCalled == ret.fn = "find_competitors" /\ ret.cred = "ok"

\* the elements of the array the analysis reply holds
Extracted == json_loads(cleaned_response(reply.text)).elems

\* one of the steps of find_competitors failed: the query LLM call, the search,
\* the extraction LLM call, the JSON parse, the URL loop
StepFailed ==
    \/ reply.query # "text"
    \/ reply.search # "ok"
    \/ reply.kind # "text"
    \/ ~Has(reply.text, "[") \/ ~Has(reply.text, "]")
    \/ ~json_loads(cleaned_response(reply.text)).ok
    \/ \E k \in 1..Len(Extracted) : Extracted[k][1] \notin ObjTokens

\* C3: find_competitors returns the empty list whenever one of its steps
\* fails and at most 3 competitors otherwise, so every list stored in
\* st.session_state.competitors has at most 3 entries.
C3_EmptyOnFailureAtMostThree ==
    /\ FoundCalled =>
        /\ ~ret.raised
        /\ StepFailed => ret.value = <<>>
        /\ Len(ret.value) <= 3
    /\ \A p \in 1..Len(competitors) : Len(competitors[p].list) <= 3

\* C3 witness: an array of 4 competitors was cut to 3 and stored
C3_Witness ==
    /\ FoundCalled /\ ~StepFailed
    /\ Len(Extracted) = 4
    /\ Len(ret.value) = 3
    /\ \E p \in 1..Len(competitors) : competitors[p].list = ret.value

\* identify_industries met a failure after AIProvider(): the LLM call failed or
\* its text did not parse
IdentifyFailed ==
    reply.kind # "text" \/ ~json_loads(cleaned_response(reply.text)).ok

\* the last call met a failure
CallFailed ==
    \/ ret.cred # "ok"
    \/ ret.fn = "identify_industries" /\ IdentifyFailed
    \/ ret.fn = "find_competitors" /\ StepFailed

\* C4: every failure while identify_industries or find_competitors runs, a
\* missing API credential included, is caught inside the function, logged and
\* shown to the user; no exception leaves either function.
C4_EveryFailureCaught ==
    ret.fn # "none" =>
        /\ ~ret.raised
        /\ CallFailed => (ret.logged /\ ret.shown)

\* the domain of a website text: without its scheme, its path and a leading "www."
DomainOf(u) ==
    LET rest == IF u # <<>> /\ u[1] \in UrlSchemes THEN Tail(u) ELSE u
        host == SubSeq(rest, 1, PathStart(rest) - 1)
    IN IF host # <<>> /\ host[1] = "www." THEN Tail(host) ELSE host

\* C5: a returned competitor whose extracted website is not empty has the
\* website "https://www." followed by the domain of the extracted value; no
\* path survives.
C5_WebsiteIsHttpsWwwDomain ==
    (FoundCalled /\ ~ret.raised) =>
        \A k \in 1..Len(ret.value) :
            LET extracted == reply.bind[Extracted[k][1]] IN
            ("website" \in DOMAIN extracted /\ extracted["website"] # <<>>)
                => ret.value[k]["website"]
                       = <<"https://", "www.">> \o DomainOf(extracted["website"])

\* number of competitors in the first n items of the dict
RECURSIVE CountBefore(_, _)
CountBefore(items, n) ==
    IF n = 0 THEN 0 ELSE CountBefore(items, n - 1) + Len(items[n].list)

\* C6: the CSV export_results writes has the header Industry, Competitor,
\* Website, Description, Key Differentiator, then exactly one row per
\* (industry, competitor) pair in the order of the mapping, each row the label
\* followed by name, website, description and differentiator; a run that ends
\* with a non-empty mapping writes it.
C6_CsvOneRowPerPair ==
    /\ (pc = "idle" /\ exc = "none" /\ competitors # <<>>) => csv # <<>>
    /\ csv # <<>> =>
        /\ competitors # <<>>
        /\ csv[1] = << <<"Industry">>, <<"Competitor">>, <<"Website">>,
                       <<"Description">>, <<"Key Differentiator">> >>
        /\ Len(csv) - 1 = CountBefore(competitors, Len(competitors))
        /\ \A p \in 1..Len(competitors) : \A c \in 1..Len(competitors[p].list) :
            LET comp == competitors[p].list[c] IN
            csv[1 + CountBefore(competitors, p - 1) + c]
                = <<competitors[p].key, comp["name"], comp["website"],
                    comp["description"], comp["differentiator"]>>

\* C6 witness: an export of two industries with 3 rows or more
C6_Witness ==
    /\ csv # <<>>
    /\ Len(competitors) >= 2
    /\ Len(csv) >= 4
    /\ competitors[1].list # <<>> /\ competitors[2].list # <<>>

\* C7: between two accepted submissions find_competitors is invoked at most
\* once per industry label.
C7_InvokedOncePerLabel ==
    \A l \in SessionLabels : calls[l] <= 1

\* C8: every stored competitor has the fields name, website, description and
\* differentiator.
C8_EntriesHaveFourFields ==
    \A p \in 1..Len(competitors) : \A c \in 1..Len(competitors[p].list) :
        Fields \subseteq DOMAIN competitors[p].list[c]

\* every key of the mapping is a current industry
KeysAreIndustries ==
    \A p \in 1..Len(competitors) :
        /\ industries # None
        /\ \E i \in 1..Len(industries) : industries[i] = competitors[p].key

\* the mapping changes only by the reset of an accepted submission or by the
\* load of the tab being rendered
WrittenByResetOrLoad ==
    competitors' # competitors =>
        \/ pc = "idle" /\ event' = "accepted" /\ competitors' = <<>>
        \/ /\ pc = "tabs" /\ tab \in 1..Len(industries)
           /\ ~HasKey(competitors, industries[tab])
           /\ competitors' = Append(competitors,
                                    [key |-> industries[tab], list |-> ret'.value])

\* C9: in every reachable state every key of st.session_state.competitors is an
\* element of st.session_state.industries, and the mapping is written only by
\* the accepted-submission reset and the per-industry load.
C9_KeysAreCurrentIndustries ==
    []KeysAreIndustries /\ [][WrittenByResetOrLoad]_vars

\* C9 witness: after an analysis with LLM-named industries and a rejected
\* submission the mapping holds two industries
C9_Witness ==
    /\ event = "rejected" /\ pc = "idle"
    /\ Len(competitors) >= 2
    /\ industries # DefaultIndustries

\* C10: an accepted submission replaces industries and empties competitors,
\* every list in the mapping was produced after the most recent accepted
\* submission, and a rejected submission changes neither industries nor
\* competitors.
C10_AcceptedResetsRejectedKeeps ==
    /\ [][(pc = "idle" /\ event' = "accepted" /\ secrets_ok' = secrets_ok)
             => (competitors' = <<>> /\ industries' = ret'.value)]_vars
    /\ [](\A p \in 1..Len(competitors) : competitors[p].key \in fresh)
    /\ [][event' = "rejected" => UNCHANGED <<industries, competitors>>]_vars

=============================================================================
